---- MODULE Spec2Model ----
(***************************************************************************)
(* pyPRMS: the Parameter entity (src/pyPRMS/Parameter.py), its dimension   *)
(* set and the owning parameter collection.                                *)
(*                                                                         *)
(* Numbers are fixed-point with one binary fractional digit: the model     *)
(* value v stands for v/2, so even values are whole numbers and an integer *)
(* conversion truncates to the even value below.                           *)
(*                                                                         *)
(* An ndarray is a record [shape, flat]: shape is the tuple of axis        *)
(* lengths and flat the elements in numpy's logical (row-major) order, so  *)
(* Len(flat) is always the product of shape.  None is NoData.              *)
(***************************************************************************)
EXTENDS Integers, Sequences, FiniteSets, TLC

VARIABLES param, last, coll, clast, heap

vars == <<param, last, coll, clast, heap>>

(***************************************************************************)
(* Bounds of the model: the declared sizes of nhru, nmonths and npoigages, *)
(* the longest axis of an incoming array, the largest incoming element (in *)
(* halves), the longest index list handed to remove_by_index and           *)
(* subset_by_index, the largest number of entries of a catalog.            *)
(***************************************************************************)
NHru == 3
NMonths == 2
NPoi == 3
MaxAxis == 3
MaxVal == 5
MaxIdx == 2
MaxCatalog == 4

(***************************************************************************)
(* numpy helpers                                                           *)
(***************************************************************************)
RECURSIVE Prod(_)
Prod(s) == IF Len(s) = 0 THEN 1 ELSE Head(s) * Prod(Tail(s))

NoData == [shape |-> <<>>, flat |-> <<>>]

IsNone(a) == a = NoData

Ndim(a) == Len(a.shape)

Size(a) == Prod(a.shape)

Mk0(v) == [shape |-> <<>>, flat |-> <<v>>]

At1(a, i) == a.flat[i + 1]

At2(a, i, j) == a.flat[i * a.shape[2] + j + 1]

\* np.array_equal: same shape and same elements
array_equal(a, b) == a.shape = b.shape /\ a.flat = b.flat

\* a.reshape((-1, c), order='F') of a 1-D array: the element at (i, j) is
\* the one at flat position i + j * rows, axis 0 varying fastest
reshape_F_ok(a, c) == c > 0 /\ Size(a) % c = 0

reshape_F(a, c) ==
    LET r == Size(a) \div c
    IN  [shape |-> <<r, c>>,
         flat  |-> [k \in 1..(r * c) |->
                       a.flat[((k - 1) \div c) + ((k - 1) % c) * r + 1]]]

\* a.ravel(order='F'): axis 0 varies fastest
ravel_F(a) ==
    IF Ndim(a) = 2
    THEN LET r == a.shape[1]
         IN  [k \in 1..(r * a.shape[2]) |-> At2(a, (k - 1) % r, (k - 1) \div r)]
    ELSE a.flat

RECURSIVE SeqOfSet(_)
\* the elements of a finite set of integers in increasing order
SeqOfSet(S) ==
    IF S = {} THEN <<>>
    ELSE LET m == CHOOSE x \in S : \A y \in S : x <= y
         IN  <<m>> \o SeqOfSet(S \ {m})

Range(s) == {s[k] : k \in 1..Len(s)}

\* the rows (axis 0) or columns (axis 1) of a, or the elements of a 1-D a,
\* at the positions sel (0-based), in sel's order
select(a, sel, axis) ==
    IF Ndim(a) = 1
    THEN [shape |-> <<Len(sel)>>,
          flat  |-> [k \in 1..Len(sel) |-> At1(a, sel[k])]]
    ELSE IF axis = 0
    THEN LET c == a.shape[2]
         IN  [shape |-> <<Len(sel), c>>,
              flat  |-> [k \in 1..(Len(sel) * c) |->
                            At2(a, sel[((k - 1) \div c) + 1], (k - 1) % c)]]
    ELSE LET c == Len(sel)
         IN  [shape |-> <<a.shape[1], c>>,
              flat  |-> [k \in 1..(a.shape[1] * c) |->
                            At2(a, (k - 1) \div c, sel[((k - 1) % c) + 1])]]

\* a[idx] with idx a list of integers: selection along axis 0, in idx order
take_ok(a, idx) ==
    /\ Ndim(a) >= 1
    /\ \A k \in 1..Len(idx) : idx[k] \in 0..(a.shape[1] - 1)

take(a, idx) == select(a, idx, 0)

\* np.delete(a, idx, axis): the positions named in idx are dropped, the
\* others keep their order
delete_ok(a, idx, axis) ==
    /\ axis < Ndim(a)
    /\ \A k \in 1..Len(idx) : idx[k] \in 0..(a.shape[axis + 1] - 1)

delete(a, idx, axis) ==
    select(a, SeqOfSet((0..(a.shape[axis + 1] - 1)) \ Range(idx)), axis)

\* np.broadcast_to(a, shp): trailing axes are aligned and an axis of
\* length 1 stretches
broadcast_ok(a, shp) ==
    /\ Ndim(a) <= Len(shp)
    /\ \A k \in 1..Ndim(a) :
          \/ a.shape[Ndim(a) - k + 1] = shp[Len(shp) - k + 1]
          \/ a.shape[Ndim(a) - k + 1] = 1

\* the source index along source axis k for the target index i
bsrc(a, k, i) == IF a.shape[k] = 1 THEN 0 ELSE i

broadcast_to(a, shp) ==
    IF Len(shp) = 0 THEN a
    ELSE IF Len(shp) = 1
    THEN [shape |-> shp,
          flat  |-> [k \in 1..shp[1] |->
                        IF Ndim(a) = 0 THEN a.flat[1]
                        ELSE At1(a, bsrc(a, 1, k - 1))]]
    ELSE [shape |-> shp,
          flat  |-> [k \in 1..(shp[1] * shp[2]) |->
                        IF Ndim(a) = 0 THEN a.flat[1]
                        ELSE IF Ndim(a) = 1
                        THEN At1(a, bsrc(a, 1, (k - 1) % shp[2]))
                        ELSE At2(a, bsrc(a, 1, (k - 1) \div shp[2]),
                                    bsrc(a, 2, (k - 1) % shp[2]))]]

\* a.T of a rank-2 array
transpose(a) ==
    LET r == a.shape[2]
        c == a.shape[1]
    IN  [shape |-> <<r, c>>,
         flat  |-> [k \in 1..(r * c) |-> At2(a, (k - 1) % c, (k - 1) \div c)]]

\* np.array(a[0], ndmin=1): the first element of a 1-D array, or the first
\* row of a 2-D array
first_ndmin1(a) ==
    IF Ndim(a) = 1
    THEN [shape |-> <<1>>, flat |-> <<a.flat[1]>>]
    ELSE [shape |-> <<a.shape[2]>>,
          flat  |-> [k \in 1..a.shape[2] |-> a.flat[k]]]

(***************************************************************************)
(* ParamDimensions: an ordered list of [name, size] records; the position  *)
(* in the list is the axis.                                                *)
(***************************************************************************)
Dim(n, sz) == [name |-> n, size |-> sz]

dim_names(dims) == {dims[k].name : k \in 1..Len(dims)}

dim_exists(dims, n) == n \in dim_names(dims)

\* zero-based axis of a declared dimension
get_position(dims, n) == (CHOOSE k \in 1..Len(dims) : dims[k].name = n) - 1

get_dimsize_by_index(dims, i) == dims[i + 1].size

dim_sizes(dims) == [k \in 1..Len(dims) |-> dims[k].size]

dims_remove(dims, n) == SelectSeq(dims, LAMBDA d : d.name # n)

\* only an unseen name is inserted, at the end
dims_add(dims, n, sz) == IF dim_exists(dims, n) THEN dims ELSE Append(dims, Dim(n, sz))

RECURSIVE dims_add_all(_, _)
dims_add_all(dims, new_dims) ==
    IF Len(new_dims) = 0 THEN dims
    ELSE dims_add_all(dims_add(dims, Head(new_dims).name, Head(new_dims).size),
                      Tail(new_dims))

dims_set_size(dims, n, sz) ==
    [k \in 1..Len(dims) |-> IF dims[k].name = n THEN Dim(n, sz) ELSE dims[k]]

(***************************************************************************)
(* Parameter.  A parameter is a record                                     *)
(*   [datatype, minimum, maximum, dims, data, modified, readonly]          *)
(* readonly says that data is a view made by np.broadcast_to, which numpy  *)
(* refuses to write through.  An operation yields [p, raised]: the         *)
(* parameter afterwards and the exception it raised ("None" if it          *)
(* returned).                                                              *)
(***************************************************************************)
Returned(p) == [p |-> p, raised |-> "None"]

Raised(p, exc) == [p |-> p, raised |-> exc]

NoBound == [kind |-> "none", num |-> 0, numeric |-> FALSE]

\* Parameter.__init__ for a catalog entry with a datatype and declared
\* dimensions
NewParameter(datatype, dims) ==
    [datatype |-> datatype, minimum |-> NoBound, maximum |-> NoBound,
     default |-> NoBound, dims |-> dims, data |-> NoData, modified |-> FALSE, readonly |-> FALSE]

ndims(p) == Len(p.dims)

\* the codes of DATA_TYPES: 1 integer, 2 float, 3 double, 4 string
DATA_TYPES == 1..4

\* a datatype of None
NoDatatype == 0

\* lines 133-148: the datatype setter
datatype_set(p, dtype) ==
    IF dtype \in DATA_TYPES THEN Returned([p EXCEPT !.datatype = dtype])
    ELSE IF dtype = NoDatatype THEN Returned([p EXCEPT !.datatype = NoDatatype])
    ELSE Raised(p, "TypeError")

\* Parameter.size: the product of the declared sizes
size(p) == Prod(dim_sizes(p.dims))

has_correct_size(p) == Size(p.data) = Prod(dim_sizes(p.dims))

\* the element conversion of np.array(list, dtype=DATATYPE_TO_DTYPE[datatype])
cast(datatype, v) == IF datatype = 1 THEN 2 * (v \div 2) ELSE v

\* lines 359-366: the incoming object as an ndarray
as_array(p, kind, data_in) ==
    IF kind = "list"
    THEN [shape |-> data_in.shape,
          flat  |-> [k \in 1..Len(data_in.flat) |-> cast(p.datatype, data_in.flat[k])]]
    ELSE data_in

\* lines 368-393: shape reconciliation; yields [raised, arr]
reconcile(p, kind, data_np) ==
    IF Size(data_np) = size(p)
    THEN IF Ndim(data_np) < ndims(p)
         THEN IF Ndim(data_np) # 0
              THEN IF reshape_F_ok(data_np, get_dimsize_by_index(p.dims, 1))
                   THEN [raised |-> "None",
                         arr |-> reshape_F(data_np, get_dimsize_by_index(p.dims, 1))]
                   ELSE [raised |-> "ValueError", arr |-> NoData]
              ELSE [raised |-> "None", arr |-> data_np]
         ELSE IF Ndim(data_np) = ndims(p)
         THEN [raised |-> "None", arr |-> data_np]
         ELSE [raised |-> "ValueError", arr |-> NoData]
    ELSE IF Size(data_np) > size(p) /\ dim_exists(p.dims, "one")
    THEN IF Ndim(data_np) = 0
         THEN [raised |-> "IndexError", arr |-> NoData]
         ELSE [raised |-> "None", arr |-> first_ndmin1(data_np)]
    ELSE IF kind = "list"
    THEN [raised |-> "AttributeError", arr |-> NoData]
    ELSE [raised |-> "IndexError", arr |-> NoData]

\* a setter that flags every assignment, the first one too
store_flagging(p, data_np) ==
    [p EXCEPT !.data = data_np, !.readonly = FALSE, !.modified = TRUE]

\* lines 395-403: keep, or replace and flag
store(p, data_np) ==
    IF IsNone(p.data)
    THEN [p EXCEPT !.data = data_np, !.readonly = FALSE]
    ELSE IF array_equal(p.data, data_np)
    THEN p
    ELSE [p EXCEPT !.data = data_np, !.readonly = FALSE, !.modified = TRUE]

\* the data setter; kind is the type of the incoming object
data_set(p, kind, data_in) ==
    IF ndims(p) = 0 THEN Raised(p, "ValueError")
    ELSE IF kind \notin {"list", "ndarray", "series"}
    THEN Raised(p, "AttributeError")
    ELSE IF kind = "list" /\ p.datatype = NoDatatype
    THEN Raised(p, "KeyError")
    ELSE LET rec == reconcile(p, kind, as_array(p, kind, data_in))
         IN  IF rec.raised # "None" THEN Raised(p, rec.raised)
             ELSE Returned(store(p, rec.arr))

tolist(p) == ravel_F(p.data)

\* lines 405-408: the pairs (value, index) of the enumerated data go into a
\* dictionary one after the other, a later pair replacing an earlier one
\* with the same value; yields [raised, map].  The elements of rank-2 data
\* are lists, which no dictionary takes as keys
index_map(p) ==
    IF IsNone(p.data) THEN [raised |-> "AttributeError", map |-> <<>>]
    ELSE IF Ndim(p.data) # 1 THEN [raised |-> "TypeError", map |-> <<>>]
    ELSE [raised |-> "None",
          map |-> [v \in Range(p.data.flat) |->
                     CHOOSE i \in 0..(Len(p.data.flat) - 1) :
                        /\ p.data.flat[i + 1] = v
                        /\ \A j \in (i + 1)..(Len(p.data.flat) - 1) :
                              p.data.flat[j + 1] # v]]

AsList(s) == [shape |-> <<Len(s)>>, flat |-> s]

\* lines 435-444.  value is an ndarray of rank 0 (a scalar) or rank 1 (a
\* row); data[index] = value writes one element of 1-D data or one row of
\* 2-D data
setitem_ok(a, index, value) ==
    /\ Ndim(a) >= 1
    /\ index \in 0..(a.shape[1] - 1)
    /\ \/ Ndim(value) = 0
       \/ Ndim(a) = 2 /\ Ndim(value) = 1 /\ value.shape[1] \in {1, a.shape[2]}

setitem(a, index, value) ==
    IF Ndim(a) = 1
    THEN [a EXCEPT !.flat[index + 1] = value.flat[1]]
    ELSE [a EXCEPT !.flat =
            [k \in 1..Len(a.flat) |->
                IF (k - 1) \div a.shape[2] = index
                THEN IF Size(value) = 1 THEN value.flat[1]
                     ELSE value.flat[((k - 1) % a.shape[2]) + 1]
                ELSE a.flat[k]]]

update_element(p, index, value) ==
    IF array_equal(p.data, value) THEN Returned(p)
    ELSE IF IsNone(p.data) THEN Raised(p, "TypeError")
    ELSE IF p.readonly THEN Raised(p, "ValueError")
    ELSE IF Ndim(p.data) = 0 \/ index \notin 0..(p.data.shape[1] - 1)
    THEN Raised(p, "IndexError")
    ELSE IF ~setitem_ok(p.data, index, value) THEN Raised(p, "ValueError")
    ELSE Returned([p EXCEPT !.data = setitem(p.data, index, value),
                            !.modified = TRUE])

\* a range check that rejects values equal to a bound
check_values_strict(p) ==
    IF p.minimum.kind # "none" /\ p.maximum.kind # "none"
    THEN IF ~(p.minimum.kind = "str" \/ p.maximum.kind = "str")
         THEN /\ \A k \in 1..Len(p.data.flat) : p.data.flat[k] > p.minimum.num
              /\ \A k \in 1..Len(p.data.flat) : p.data.flat[k] < p.maximum.num
         ELSE TRUE
    ELSE TRUE

\* lines 525-531
check_values(p) ==
    IF p.minimum.kind # "none" /\ p.maximum.kind # "none"
    THEN IF ~(p.minimum.kind = "str" \/ p.maximum.kind = "str")
         THEN /\ \A k \in 1..Len(p.data.flat) : p.data.flat[k] >= p.minimum.num
              /\ \A k \in 1..Len(p.data.flat) : p.data.flat[k] <= p.maximum.num
         ELSE TRUE
    ELSE TRUE

(***************************************************************************)
(* A bound handed to the minimum / maximum setters is None, a number or a  *)
(* string: [kind, num, numeric].  A string with numeric = TRUE is the text *)
(* of the number num; with numeric = FALSE it is a sentinel such as a      *)
(* dimension name.                                                         *)
(***************************************************************************)
Num(n) == [kind |-> "num", num |-> n, numeric |-> TRUE]

Str(n) == [kind |-> "str", num |-> n, numeric |-> TRUE]

Sentinel == [kind |-> "str", num |-> 0, numeric |-> FALSE]

\* float(value) and int(value); int() of a number truncates, of a string
\* accepts only the text of a whole number
float_ok(value) == value.numeric

int_ok(value) == value.numeric /\ (value.kind = "str" => value.num % 2 = 0)

\* lines 233-244 and 261-272: the value the setter stores; yields
\* [raised, value]
coerce_bound(p, value) ==
    IF value.kind = "none"
    THEN [raised |-> "None", value |-> value]
    ELSE IF p.datatype \in {2, 3}
    THEN IF float_ok(value)
         THEN [raised |-> "None", value |-> Num(value.num)]
         ELSE [raised |-> "ValueError", value |-> value]
    ELSE IF p.datatype = 1
    THEN IF int_ok(value)
         THEN [raised |-> "None", value |-> Num(2 * (value.num \div 2))]
         ELSE [raised |-> "None", value |-> value]
    ELSE [raised |-> "None", value |-> value]

minimum_set(p, value) ==
    LET c == coerce_bound(p, value)
    IN  IF c.raised # "None" THEN Raised(p, c.raised)
        ELSE Returned([p EXCEPT !.minimum = c.value])

maximum_set(p, value) ==
    LET c == coerce_bound(p, value)
    IN  IF c.raised # "None" THEN Raised(p, c.raised)
        ELSE Returned([p EXCEPT !.maximum = c.value])

\* lines 282-298: the default setter converts like the other two, but an
\* integer parameter's int(value) is not guarded
default_set(p, value) ==
    IF p.datatype = NoDatatype \/ value.kind = "none"
    THEN Returned([p EXCEPT !.default = value])
    ELSE IF p.datatype \in {2, 3}
    THEN IF float_ok(value) THEN Returned([p EXCEPT !.default = Num(value.num)])
         ELSE Raised(p, "ValueError")
    ELSE IF p.datatype = 1
    THEN IF int_ok(value)
         THEN Returned([p EXCEPT !.default = Num(2 * (value.num \div 2))])
         ELSE Raised(p, "ValueError")
    ELSE Returned([p EXCEPT !.default = value])

\* a removal that deletes the entries and forgets the dimension's size
remove_by_index_data_only(p, dim_name, indices) ==
    IF IsNone(p.data) THEN Raised(p, "AttributeError")
    ELSE IF Size(p.data) = 1 THEN Returned(p)
    ELSE IF ~dim_exists(p.dims, dim_name) THEN Raised(p, "KeyError")
    ELSE LET pos == get_position(p.dims, dim_name)
         IN  IF ~delete_ok(p.data, indices, pos) THEN Raised(p, "IndexError")
             ELSE Returned([p EXCEPT !.data = delete(p.data, indices, pos),
                                     !.readonly = FALSE])

\* a removal that deletes along axis 0 whatever the dimension
remove_by_index_axis0(p, dim_name, indices) ==
    IF IsNone(p.data) THEN Raised(p, "AttributeError")
    ELSE IF Size(p.data) = 1 THEN Returned(p)
    ELSE IF ~dim_exists(p.dims, dim_name) THEN Raised(p, "KeyError")
    ELSE LET pos == get_position(p.dims, dim_name)
         IN  IF ~delete_ok(p.data, indices, 0) THEN Raised(p, "IndexError")
             ELSE LET d == delete(p.data, indices, 0)
                  IN  Returned([p EXCEPT !.data = d, !.readonly = FALSE,
                                  !.dims = dims_set_size(p.dims, dim_name, d.shape[pos + 1])])

\* lines 559-570
remove_by_index(p, dim_name, indices) ==
    IF IsNone(p.data) THEN Raised(p, "AttributeError")
    ELSE IF Size(p.data) = 1 THEN Returned(p)
    ELSE IF ~dim_exists(p.dims, dim_name) THEN Raised(p, "KeyError")
    ELSE LET pos == get_position(p.dims, dim_name)
         IN  IF ~delete_ok(p.data, indices, pos) THEN Raised(p, "IndexError")
             ELSE LET d == delete(p.data, indices, pos)
                  IN  Returned([p EXCEPT !.data = d, !.readonly = FALSE,
                                  !.dims = dims_set_size(p.dims, dim_name, d.shape[pos + 1])])

\* a subset that keeps the selected entries in their stored order
subset_by_index_in_place(p, dim_name, indices) ==
    IF IsNone(p.data) THEN Raised(p, "AttributeError")
    ELSE IF Size(p.data) = 1 THEN Returned(p)
    ELSE IF ~take_ok(p.data, indices) THEN Raised(p, "IndexError")
    ELSE LET d == take(p.data, SeqOfSet(Range(indices)))
             q == [p EXCEPT !.data = d, !.readonly = FALSE]
         IN  IF ~dim_exists(p.dims, dim_name) THEN Raised(q, "KeyError")
             ELSE IF get_position(p.dims, dim_name) >= Ndim(d)
             THEN Raised(q, "IndexError")
             ELSE Returned([q EXCEPT !.dims =
                      dims_set_size(p.dims, dim_name,
                                    d.shape[get_position(p.dims, dim_name) + 1])])

\* lines 614-625: the array is replaced before the dimension is looked up
subset_by_index(p, dim_name, indices) ==
    IF IsNone(p.data) THEN Raised(p, "AttributeError")
    ELSE IF Size(p.data) = 1 THEN Returned(p)
    ELSE IF ~take_ok(p.data, indices) THEN Raised(p, "IndexError")
    ELSE LET d == take(p.data, indices)
             q == [p EXCEPT !.data = d, !.readonly = FALSE]
         IN  IF ~dim_exists(p.dims, dim_name) THEN Raised(q, "KeyError")
             ELSE IF get_position(p.dims, dim_name) >= Ndim(d)
             THEN Raised(q, "IndexError")
             ELSE Returned([q EXCEPT !.dims =
                      dims_set_size(p.dims, dim_name,
                                    d.shape[get_position(p.dims, dim_name) + 1])])

\* lines 600-604: broadcast, or broadcast against the reversed shape and
\* transpose; yields [raised, arr]
broadcast_1d(a, new_sizes) ==
    IF broadcast_ok(a, new_sizes)
    THEN [raised |-> "None", arr |-> broadcast_to(a, new_sizes)]
    ELSE IF broadcast_ok(a, <<new_sizes[2], new_sizes[1]>>)
    THEN [raised |-> "None",
          arr |-> transpose(broadcast_to(a, <<new_sizes[2], new_sizes[1]>>))]
    ELSE [raised |-> "ValueError", arr |-> NoData]

\* a reshape that keeps 'one' among the dimensions of a scalar
reshape_keeping_one(p, new_dims) ==
    IF ndims(p) = 1 /\ dim_exists(p.dims, "one") /\ broadcast_ok(p.data, dim_sizes(new_dims))
    THEN Returned([p EXCEPT !.dims = dims_add_all(p.dims, new_dims),
                            !.data = broadcast_to(p.data, dim_sizes(new_dims)),
                            !.readonly = TRUE])
    ELSE Returned(p)

\* lines 572-612
reshape(p, new_dims) ==
    IF ndims(p) = 1
    THEN IF dim_exists(p.dims, "one")
         THEN IF ~broadcast_ok(p.data, dim_sizes(new_dims))
              THEN Raised(p, "ValueError")
              ELSE Returned([p EXCEPT
                      !.dims = dims_add_all(dims_remove(p.dims, "one"), new_dims),
                      !.data = broadcast_to(p.data, dim_sizes(new_dims)),
                      !.readonly = TRUE])
         ELSE IF dim_names(p.dims) \subseteq dim_names(new_dims)
         THEN IF Len(new_dims) = 1 THEN Returned(p)
              ELSE LET b == broadcast_1d(p.data, dim_sizes(new_dims))
                   IN  IF b.raised # "None" THEN Raised(p, b.raised)
                       ELSE Returned([p EXCEPT
                               !.dims = dims_add_all(dims_remove(p.dims, p.dims[1].name),
                                                     new_dims),
                               !.data = b.arr,
                               !.readonly = TRUE])
         ELSE Returned(p)
    ELSE Returned(p)

(***************************************************************************)
(* The inputs of the operations.                                           *)
(***************************************************************************)
\* an array of the given shape holding base, base + step, ... (mod MaxVal + 1)
\* in row-major order
Pattern(shape, base, step) ==
    [shape |-> shape,
     flat  |-> [k \in 1..Prod(shape) |-> (base + step * (k - 1)) % (MaxVal + 1)]]

\* 1-D lengths up to MaxAxis and the exact length of a 2-D parameter
Shapes1 == {<<n>> : n \in 0..MaxAxis} \cup {<<NHru * NMonths>>}

Shapes2 == {<<r, c>> : r \in 2..MaxAxis, c \in 2..MaxAxis}

ShapesOf(kind) ==
    IF kind = "list" THEN Shapes1 \cup Shapes2
    ELSE IF kind = "ndarray" THEN {<<>>} \cup Shapes1 \cup Shapes2
    ELSE IF kind = "series" THEN Shapes1
    ELSE {<<>>}

\* a list, an ndarray, a pandas Series or a numpy scalar
DataInputs ==
    {[kind |-> kind, arr |-> Pattern(shape, bs[1], bs[2])] :
        kind \in {"list", "ndarray", "series", "scalar"},
        shape \in Shapes1 \cup Shapes2 \cup {<<>>},
        bs \in {<<0, 1>>, <<1, 0>>}}

IndexLists ==
    UNION {[1..n -> 0..(MaxAxis - 1)] : n \in 0..MaxIdx}

DimNames == {"one", "nhru", "nmonths"}

GlobalSize(n) ==
    IF n = "nhru" THEN NHru
    ELSE IF n = "nmonths" THEN NMonths
    ELSE IF n = "npoigages" THEN NPoi
    ELSE 1

NewDimsLists ==
    {<<>>} \cup {<<Dim(a, GlobalSize(a))>> : a \in {"nhru", "nmonths"}}
           \cup {<<Dim(a, GlobalSize(a)), Dim(b, GlobalSize(b))>> :
                    a \in {"nhru", "nmonths"}, b \in {"nhru", "nmonths"}}

\* the OrderedDict handed to reshape: dimensions of the global set, each
\* name once
NewDimsInputs == {nd \in NewDimsLists : Len(nd) = Cardinality(dim_names(nd))}

\* a scalar (one that assigned data holds and one that it may not hold), or
\* a row of equal elements; whole numbers, which an array of any dtype
\* stores as they are
UpdateValues == {Mk0(0), Mk0(4)} \cup {Pattern(<<n>>, 4, 0) : n \in 2..MaxAxis}

DeclaredDims ==
    { <<Dim("one", 1)>>,
      <<Dim("nhru", NHru)>>,
      <<Dim("nhru", NHru), Dim("nmonths", NMonths)>> }

(***************************************************************************)
(* Parameters, the collection: the global dimensions, the parameters by    *)
(* name and the ad hoc metadata registered with add_metadata.  A slot of   *)
(* params is [present, p].                                                 *)
(***************************************************************************)
CatalogNames == {"cov_type", "poi_gage_id", "poi_gage_segment"}

AdhocNames == {"foo"}

AllNames == CatalogNames \cup AdhocNames \cup {"nothin"}

\* the catalog's declared dimensions of a name (ad hoc metadata: nhru)
ValidDims(name) ==
    IF name \in {"poi_gage_id", "poi_gage_segment"} THEN <<"npoigages">>
    ELSE <<"nhru">>

Absent == [present |-> FALSE, p |-> NewParameter(1, <<>>)]

GlobalDims ==
    <<Dim("nhru", NHru), Dim("nmonths", NMonths), Dim("one", 1), Dim("npoigages", NPoi)>>

NewCollection ==
    [dims |-> GlobalDims, params |-> [n \in AllNames |-> Absent], adhoc |-> {}]

exists(c, name) == c.params[name].present

global_size(c, n) == c.dims[get_position(c.dims, n) + 1].size

\* add_metadata(name, attrs)
add_metadata(c, name) == [c |-> [c EXCEPT !.adhoc = @ \cup {name}], raised |-> "None"]

\* an add that does not look for the name in the collection
add_unchecked(c, name) ==
    IF name \notin CatalogNames \cup c.adhoc
    THEN [c |-> c, raised |-> "ParameterNotValidError"]
    ELSE [c |-> [c EXCEPT !.params[name] =
                    [present |-> TRUE,
                     p |-> NewParameter(1,
                              [k \in 1..Len(ValidDims(name)) |->
                                  Dim(ValidDims(name)[k],
                                      global_size(c, ValidDims(name)[k]))])]],
          raised |-> "None"]

\* add(name): a parameter made from the metadata, its dimensions sized from
\* the global set
add(c, name) ==
    IF exists(c, name) THEN [c |-> c, raised |-> "ParameterExistsError"]
    ELSE IF name \notin CatalogNames \cup c.adhoc
    THEN [c |-> c, raised |-> "ParameterNotValidError"]
    ELSE [c |-> [c EXCEPT !.params[name] =
                    [present |-> TRUE,
                     p |-> NewParameter(1,
                              [k \in 1..Len(ValidDims(name)) |->
                                  Dim(ValidDims(name)[k],
                                      global_size(c, ValidDims(name)[k]))])]],
          raised |-> "None"]

\* collection[name].data = data_in
assign(c, name, kind, data_in) ==
    IF ~exists(c, name) THEN [c |-> c, raised |-> "ParameterError"]
    ELSE LET r == data_set(c.params[name].p, kind, data_in)
         IN  [c |-> [c EXCEPT !.params[name].p = r.p], raised |-> r.raised]

\* the positions (0-based, increasing) of the stored values found in ids
positions_of(a, ids) ==
    SeqOfSet({k - 1 : k \in {i \in 1..Len(a.flat) : a.flat[i] \in ids}})

declares(c, name, dim_name) ==
    exists(c, name) /\ dim_exists(c.params[name].p.dims, dim_name)

solely(c, name, dim_name) ==
    exists(c, name) /\ dim_names(c.params[name].p.dims) = {dim_name}

\* the cascade of remove_poi: remove_by_index on every parameter that
\* declares npoigages; yields [params, raised]
RECURSIVE cascade(_, _, _)
cascade(c, names, indices) ==
    IF names = {} THEN [c |-> c, raised |-> "None"]
    ELSE LET n == CHOOSE x \in names : TRUE
             r == remove_by_index(c.params[n].p, "npoigages", indices)
             rest == cascade([c EXCEPT !.params[n].p = r.p], names \ {n}, indices)
         IN  IF r.raised # "None"
             THEN [c |-> [c EXCEPT !.params[n].p = r.p], raised |-> r.raised]
             ELSE rest

\* a remove_poi that takes the dimension out of the global set when the last
\* identifier goes
remove_poi_dropping_dim(c, ids) ==
    IF ~exists(c, "poi_gage_id") THEN [c |-> c, raised |-> "ParameterError"]
    ELSE IF IsNone(c.params["poi_gage_id"].p.data) THEN [c |-> c, raised |-> "ValueError"]
    ELSE LET poi_ids == c.params["poi_gage_id"].p.data
             indices == positions_of(poi_ids, ids)
         IN  IF Len(indices) = Size(poi_ids)
             THEN [c |-> [c EXCEPT
                      !.params = [n \in AllNames |->
                                    IF solely(c, n, "npoigages") THEN Absent ELSE @[n]],
                      !.dims = dims_remove(@, "npoigages")],
                   raised |-> "None"]
             ELSE LET r == cascade(c, {n \in AllNames : declares(c, n, "npoigages")},
                                   indices)
                  IN  IF r.raised # "None" THEN r
                      ELSE [c |-> [r.c EXCEPT !.dims =
                                     dims_set_size(@, "npoigages",
                                        Size(r.c.params["poi_gage_id"].p.data))],
                            raised |-> "None"]

\* remove_poi(poi): poi is a list of identifiers (a single identifier is
\* wrapped in a list)
remove_poi(c, ids) ==
    IF ~exists(c, "poi_gage_id") THEN [c |-> c, raised |-> "ParameterError"]
    ELSE IF IsNone(c.params["poi_gage_id"].p.data) THEN [c |-> c, raised |-> "ValueError"]
    ELSE LET poi_ids == c.params["poi_gage_id"].p.data
             indices == positions_of(poi_ids, ids)
         IN  IF Len(indices) = Size(poi_ids)
             THEN [c |-> [c EXCEPT
                      !.params = [n \in AllNames |->
                                    IF solely(c, n, "npoigages") THEN Absent ELSE @[n]],
                      !.dims = dims_set_size(@, "npoigages", 0)],
                   raised |-> "None"]
             ELSE LET r == cascade(c, {n \in AllNames : declares(c, n, "npoigages")},
                                   indices)
                  IN  IF r.raised # "None" THEN r
                      ELSE [c |-> [r.c EXCEPT !.dims =
                                     dims_set_size(@, "npoigages",
                                        Size(r.c.params["poi_gage_id"].p.data))],
                            raised |-> "None"]

(***************************************************************************)
(* One parameter and the calls made on it.  last is the call just made:    *)
(* its name, its arguments, the exception it raised and what it returned   *)
(* (reshape also notes the dimensions it found); the caller takes the      *)
(* outcome (Return) before it makes the next call.                         *)
(***************************************************************************)

Idle == [op |-> "idle", raised |-> "None"]

\* no array object is shared between a caller and parameters
NoHeap == <<>>

Init ==
    /\ param \in {NewParameter(dt, dims) : dt \in {1, 2}, dims \in DeclaredDims}
    /\ last = Idle
    /\ coll = NewCollection
    /\ clast = Idle
    /\ heap = NoHeap

DataSet ==
    \E inp \in DataInputs :
        /\ last = Idle
        /\ inp.arr.shape \in ShapesOf(inp.kind)
        /\ LET r == data_set(param, inp.kind, inp.arr)
           IN  /\ param' = r.p
               /\ last' = [op |-> "data", raised |-> r.raised, kind |-> inp.kind,
                           data_np |-> IF r.raised = "None"
                                       THEN reconcile(param, inp.kind,
                                                as_array(param, inp.kind, inp.arr)).arr
                                       ELSE NoData,
                           ndim_in |-> Ndim(inp.arr),
                           size_in |-> Size(inp.arr),
                           first_in |-> IF Size(inp.arr) = 0 THEN 0
                                        ELSE as_array(param, inp.kind, inp.arr).flat[1]]
        /\ UNCHANGED <<coll, clast, heap>>

\* param.data = param.tolist()
DataFromToList ==
    /\ last = Idle
    /\ ~IsNone(param.data)
    /\ LET r == data_set(param, "list", AsList(tolist(param)))
       IN  /\ param' = r.p
           /\ last' = [op |-> "data_tolist", raised |-> r.raised]
    /\ UNCHANGED <<coll, clast, heap>>

UpdateElement ==
    \E index \in 0..(MaxAxis - 1), value \in UpdateValues :
        /\ last = Idle
        /\ LET r == update_element(param, index, value)
           IN  /\ param' = r.p
               /\ last' = [op |-> "update_element", raised |-> r.raised,
                           index |-> index, value |-> value]
        /\ UNCHANGED <<coll, clast, heap>>

RemoveByIndex ==
    \E dim_name \in DimNames, indices \in IndexLists :
        /\ last = Idle
        /\ LET r == remove_by_index(param, dim_name, indices)
           IN  /\ param' = r.p
               /\ last' = [op |-> "remove_by_index", raised |-> r.raised,
                           dim_name |-> dim_name, indices |-> indices]
        /\ UNCHANGED <<coll, clast, heap>>

SubsetByIndex ==
    \E dim_name \in DimNames, indices \in IndexLists :
        /\ last = Idle
        /\ LET r == subset_by_index(param, dim_name, indices)
           IN  /\ param' = r.p
               /\ last' = [op |-> "subset_by_index", raised |-> r.raised,
                           dim_name |-> dim_name, indices |-> indices]
        /\ UNCHANGED <<coll, clast, heap>>

Reshape ==
    \E new_dims \in NewDimsInputs :
        /\ last = Idle
        /\ ~IsNone(param.data)
        /\ LET r == reshape(param, new_dims)
           IN  /\ param' = r.p
               /\ last' = [op |-> "reshape", raised |-> r.raised,
                           new_dims |-> new_dims, old_dims |-> param.dims]
        /\ UNCHANGED <<coll, clast, heap>>

\* the bounds handed to the minimum and maximum setters
BoundInputs == {NoBound, Num(1), Num(4), Str(2), Str(3), Sentinel}

MinimumSet ==
    \E value \in BoundInputs :
        /\ last = Idle
        /\ LET r == minimum_set(param, value)
           IN  /\ param' = r.p
               /\ last' = [op |-> "minimum", raised |-> r.raised, value |-> value]
        /\ UNCHANGED <<coll, clast, heap>>

MaximumSet ==
    \E value \in BoundInputs :
        /\ last = Idle
        /\ LET r == maximum_set(param, value)
           IN  /\ param' = r.p
               /\ last' = [op |-> "maximum", raised |-> r.raised, value |-> value]
        /\ UNCHANGED <<coll, clast, heap>>

CheckValues ==
    /\ last = Idle
    /\ ~IsNone(param.data)
    /\ last' = [op |-> "check_values", raised |-> "None",
                result |-> check_values(param)]
    /\ UNCHANGED <<param, coll, clast, heap>>

Return ==
    /\ last # Idle
    /\ last' = Idle
    /\ UNCHANGED <<param, coll, clast, heap>>

Next ==
    \/ Return
    \/ DataSet
    \/ DataFromToList
    \/ UpdateElement
    \/ RemoveByIndex
    \/ SubsetByIndex
    \/ Reshape

Spec == Init /\ [][Next]_vars

(***************************************************************************)
(* The collection and the calls made on it; clast is the call just made.   *)
(***************************************************************************)
\* the identifiers given to poi_gage_id, and one that is never stored
PoiIds == {2 * k : k \in 0..(NPoi - 1)}

\* the array assigned to a parameter: identifiers for poi_gage_id, values
\* counting up from 1 (2 halves) for the others, as many as the parameter
\* declares
DataFor(c, name) ==
    IF name = "poi_gage_id"
    THEN Pattern(<<size(c.params[name].p)>>, 0, 2)
    ELSE Pattern(<<size(c.params[name].p)>>, 2, 2)

InitColl ==
    /\ param = NewParameter(1, <<>>)
    /\ last = Idle
    /\ coll = NewCollection
    /\ clast = Idle
    /\ heap = NoHeap

AddMetadata ==
    \E name \in AdhocNames :
        /\ clast = Idle
        /\ coll' = add_metadata(coll, name).c
        /\ clast' = [op |-> "add_metadata", raised |-> "None", name |-> name]
        /\ UNCHANGED <<param, last, heap>>

Add ==
    \E name \in AllNames :
        /\ clast = Idle
        /\ coll' = add(coll, name).c
        /\ clast' = [op |-> "add", raised |-> add(coll, name).raised, name |-> name]
        /\ UNCHANGED <<param, last, heap>>

Assign ==
    \E name \in CatalogNames \cup AdhocNames :
        /\ clast = Idle
        /\ exists(coll, name)
        /\ LET r == assign(coll, name, "ndarray", DataFor(coll, name))
           IN  /\ coll' = r.c
               /\ clast' = [op |-> "assign", raised |-> r.raised, name |-> name]
        /\ UNCHANGED <<param, last, heap>>

RemovePoi ==
    \E ids \in SUBSET (PoiIds \cup {1}) :
        /\ clast = Idle
        /\ ids # {}
        /\ LET r == remove_poi(coll, ids)
           IN  /\ coll' = r.c
               /\ clast' = [op |-> "remove_poi", raised |-> r.raised, ids |-> ids]
        /\ UNCHANGED <<param, last, heap>>

ReturnColl ==
    /\ clast # Idle
    /\ clast' = Idle
    /\ UNCHANGED <<param, last, coll, heap>>

NextColl ==
    \/ ReturnColl
    \/ AddMetadata
    \/ Add
    \/ Assign
    \/ RemovePoi

SpecColl == InitColl /\ [][NextColl]_vars

(***************************************************************************)
(* ParamDb._read: the load of a parameter database.  The catalog is the    *)
(* list of the parameter entries of the XML file, in document order; files *)
(* says for each name whether its CSV file is there and whether it holds   *)
(* as many values as the parameter declares ("full") or one less           *)
(* ("short").  clast is the load in progress: pos is the entry it is at,   *)
(* adds the names add was called with.                                     *)
(***************************************************************************)
Catalogs == UNION {[1..n -> CatalogNames] : n \in 0..MaxCatalog}

FileSets == [CatalogNames -> {"none", "full", "short"}]

\* what pd.read_csv(...).squeeze('columns').to_numpy() yields for the file
CsvData(c, name, file) ==
    IF file = "full" THEN DataFor(c, name)
    ELSE Pattern(<<size(c.params[name].p) - 1>>, 2, 2)

\* an entry handled as if no name could come twice
read_entry_no_skip(c, name, file) ==
    IF file # "none"
    THEN LET a == add(c, name)
         IN  IF a.raised # "None"
             THEN [c |-> a.c, raised |-> a.raised, added |-> TRUE]
             ELSE LET r == assign(a.c, name, "ndarray", CsvData(a.c, name, file))
                  IN  [c |-> r.c, raised |-> r.raised, added |-> TRUE]
    ELSE [c |-> c, raised |-> "None", added |-> FALSE]

\* lines 71-91: one pass of the loop over the catalog's entries; yields
\* [c, raised, added]
read_entry(c, name, file) ==
    IF exists(c, name)
    THEN [c |-> c, raised |-> "None", added |-> FALSE]
    ELSE IF file # "none"
    THEN LET a == add(c, name)
         IN  IF a.raised # "None"
             THEN [c |-> a.c, raised |-> a.raised, added |-> TRUE]
             ELSE LET r == assign(a.c, name, "ndarray", CsvData(a.c, name, file))
                  IN  [c |-> r.c, raised |-> r.raised, added |-> TRUE]
    ELSE [c |-> c, raised |-> "None", added |-> FALSE]

InitRead ==
    /\ param = NewParameter(1, <<>>)
    /\ last = Idle
    /\ coll = NewCollection
    /\ clast \in {[op |-> "_read", raised |-> "None", catalog |-> cat,
                    files |-> f, pos |-> 1, adds |-> <<>>] :
                      cat \in Catalogs, f \in FileSets}
    /\ heap = NoHeap

ReadEntry ==
    /\ clast.op = "_read"
    /\ clast.raised = "None"
    /\ clast.pos <= Len(clast.catalog)
    /\ LET name == clast.catalog[clast.pos]
           r    == read_entry(coll, name, clast.files[name])
       IN  /\ coll' = r.c
           /\ clast' = [clast EXCEPT !.pos = @ + 1,
                                     !.raised = r.raised,
                                     !.adds = IF r.added THEN Append(@, name) ELSE @]
    /\ UNCHANGED <<param, last, heap>>

\* line 93: after the last entry adjust_bounded_parameters() sets bounds,
\* and the load is over
ReadFinish ==
    /\ clast.op = "_read"
    /\ clast.raised = "None"
    /\ clast.pos > Len(clast.catalog)
    /\ clast' = [clast EXCEPT !.op = "_read_done"]
    /\ UNCHANGED <<param, last, coll, heap>>

NextRead ==
    \/ ReadEntry
    \/ ReadFinish

SpecRead == InitRead /\ [][NextRead]_vars

\* the bounds of a parameter and the check of its values against them
NextValues ==
    \/ Return
    \/ DataSet
    \/ MinimumSet
    \/ MaximumSet
    \/ CheckValues

SpecValues == Init /\ [][NextValues]_vars

(***************************************************************************)
(* The metadata setters: datatype, minimum, maximum and default.           *)
(***************************************************************************)
\* the codes handed to the datatype setter: None, integer, float and one
\* that is no code of DATA_TYPES
DatatypeInputs == {NoDatatype, 1, 2, 5}

DatatypeSet ==
    \E dtype \in DatatypeInputs :
        /\ last = Idle
        /\ LET r == datatype_set(param, dtype)
           IN  /\ param' = r.p
               /\ last' = [op |-> "datatype", raised |-> r.raised, dtype |-> dtype]
        /\ UNCHANGED <<coll, clast, heap>>

DefaultSet ==
    \E value \in BoundInputs :
        /\ last = Idle
        /\ LET r == default_set(param, value)
           IN  /\ param' = r.p
               /\ last' = [op |-> "default", raised |-> r.raised, value |-> value]
        /\ UNCHANGED <<coll, clast, heap>>

NextMeta ==
    \/ Return
    \/ DatatypeSet
    \/ MinimumSet
    \/ MaximumSet
    \/ DefaultSet

SpecMeta == Init /\ [][NextMeta]_vars

(***************************************************************************)
(* Reshaping, also against two dimensions of one size: nsegment is as long *)
(* as nhru here.                                                           *)
(***************************************************************************)
EqualDimsInputs ==
    { <<Dim("nhru", NHru), Dim("nsegment", NHru)>>,
      <<Dim("nsegment", NHru), Dim("nhru", NHru)>> }

ReshapeEqual ==
    \E new_dims \in NewDimsInputs \cup EqualDimsInputs :
        /\ last = Idle
        /\ ~IsNone(param.data)
        /\ LET r == reshape(param, new_dims)
           IN  /\ param' = r.p
               /\ last' = [op |-> "reshape", raised |-> r.raised,
                           new_dims |-> new_dims, old_dims |-> param.dims]
        /\ UNCHANGED <<coll, clast, heap>>

NextReshape ==
    \/ Return
    \/ DataSet
    \/ ReshapeEqual

SpecReshape == Init /\ [][NextReshape]_vars

(***************************************************************************)
(* Every operation of a parameter, on parameters that may also have been   *)
(* made without any dimension.                                             *)
(***************************************************************************)
InitAll ==
    /\ param \in {NewParameter(dt, dims) : dt \in {1, 2}, dims \in DeclaredDims \cup {<<>>}}
    /\ last = Idle
    /\ coll = NewCollection
    /\ clast = Idle
    /\ heap = NoHeap

IndexMap ==
    /\ last = Idle
    /\ last' = [op |-> "index_map", raised |-> index_map(param).raised,
                result |-> index_map(param).map]
    /\ UNCHANGED <<param, coll, clast, heap>>

NextAll ==
    \/ Return
    \/ DataSet
    \/ DataFromToList
    \/ UpdateElement
    \/ RemoveByIndex
    \/ SubsetByIndex
    \/ Reshape
    \/ DatatypeSet
    \/ IndexMap

SpecAll == InitAll /\ [][NextAll]_vars

(***************************************************************************)
(* Array objects.  The data setter keeps the ndarray it is handed          *)
(* (Parameter.py lines 363-364 and 395-403 bind it without a copy), so     *)
(* one array object can be the caller's and the stored array of several    *)
(* parameters at once.  heap.arrays holds the array objects: the caller's  *)
(* array and one private object per parameter for the arrays the           *)
(* parameter's own operations create.  heap.params[h] is a parameter: its  *)
(* fields p (data left out), the object ref its __data is bound to, and    *)
(* view, the shape of the read-only broadcast view reshape() put on that   *)
(* object (<<>> when __data is the object itself).  An object nothing     *)
(* refers to any more is dropped.                                          *)
(***************************************************************************)
Holders == {"p1", "p2"}

NoRef == 0

CallerRef == 1

OwnRef(h) == IF h = "p1" THEN 2 ELSE 3

\* the array read through params[h].data
Deref(hp, h) ==
    LET o == hp.params[h]
    IN  IF o.ref = NoRef THEN NoData
        ELSE IF o.view = <<>> THEN hp.arrays[o.ref]
        ELSE broadcast_1d(hp.arrays[o.ref], o.view).arr

\* the parameter as its methods see it
Observed(hp, h) == [hp.params[h].p EXCEPT !.data = Deref(hp, h)]

\* the fields of q without the array
Fields(q) == [q EXCEPT !.data = NoData]

\* __data is bound to a new array object of the parameter's own
BindOwn(hp, h, q) ==
    [hp EXCEPT !.arrays[OwnRef(h)] = q.data,
               !.params[h] = [p |-> Fields(q), ref |-> OwnRef(h), view |-> <<>>]]

\* lines 395-403: the setter binds __data unless the old array equals the
\* new one
rebinds(p, data_np) == IsNone(p.data) \/ ~array_equal(p.data, data_np)

\* lines 361-382: the array the setter stores is the incoming object itself
\* when that is an ndarray whose shape needs no change
keeps_object(p, kind, data_in) ==
    /\ kind = "ndarray"
    /\ Size(data_in) = size(p)
    /\ Ndim(data_in) = 0 \/ Ndim(data_in) >= ndims(p)

\* the list a caller assigns
ShareLists == {Pattern(<<NHru>>, 2, 0)}

\* the caller's array: 0., 1., 2., ...
ShareArrays == {Pattern(<<NHru>>, 0, 2)}

\* the element written by update_element
ShareValues == {Mk0(4)}

\* the dimensions handed to reshape
ShareNewDims == {<<Dim("nhru", NHru), Dim("nmonths", NMonths)>>}

\* the entries removed or selected
ShareIndexLists == {<<0>>, <<0, 1>>}

InitShare ==
    /\ param = NewParameter(2, <<Dim("nhru", NHru)>>)
    /\ last = Idle
    /\ coll = NewCollection
    /\ clast = Idle
    /\ heap \in {[arrays |-> <<a, NoData, NoData>>,
                  params |-> [h \in Holders |->
                                [p |-> NewParameter(2, <<Dim("nhru", NHru)>>),
                                 ref |-> NoRef, view |-> <<>>]]] :
                    a \in ShareArrays}

\* params[h].data = a, a the caller's array
ShareAssignArray ==
    \E h \in Holders :
        /\ last = Idle
        /\ LET p == Observed(heap, h)
               a == heap.arrays[CallerRef]
               r == data_set(p, "ndarray", a)
           IN  /\ heap' = IF r.raised = "None" /\ rebinds(p, a)
                          THEN IF keeps_object(p, "ndarray", a)
                               THEN [heap EXCEPT
                                       !.arrays[OwnRef(h)] = NoData,
                                       !.params[h] =
                                          [p |-> Fields(r.p), ref |-> CallerRef,
                                           view |-> <<>>]]
                               ELSE BindOwn(heap, h, r.p)
                          ELSE heap
               /\ last' = [op |-> "data", raised |-> r.raised, holder |-> h,
                           kind |-> "ndarray"]
        /\ UNCHANGED <<param, coll, clast>>

\* params[h].data = [...]: np.array(list) is a new array object
ShareAssignList ==
    \E h \in Holders, l \in ShareLists :
        /\ last = Idle
        /\ LET p == Observed(heap, h)
               r == data_set(p, "list", l)
           IN  /\ heap' = IF r.raised = "None" /\ rebinds(p, r.p.data)
                          THEN BindOwn(heap, h, r.p)
                          ELSE heap
               /\ last' = [op |-> "data", raised |-> r.raised, holder |-> h,
                           kind |-> "list"]
        /\ UNCHANGED <<param, coll, clast>>

\* line 443: self.__data[index] = value writes into the array object that
\* __data is bound to
ShareUpdateElement ==
    \E h \in Holders, index \in 0..(MaxAxis - 1), value \in ShareValues :
        /\ last = Idle
        /\ LET p == Observed(heap, h)
               r == update_element(p, index, value)
           IN  /\ heap' = IF r.raised = "None" /\ r.p # p
                          THEN [heap EXCEPT
                                  !.arrays[heap.params[h].ref] = r.p.data,
                                  !.params[h].p = Fields(r.p)]
                          ELSE heap
               /\ last' = [op |-> "update_element", raised |-> r.raised,
                           holder |-> h]
        /\ UNCHANGED <<param, coll, clast>>

\* line 569: np.delete returns a new array
ShareRemoveByIndex ==
    \E h \in Holders, indices \in ShareIndexLists :
        /\ last = Idle
        /\ LET p == Observed(heap, h)
               r == remove_by_index(p, "nhru", indices)
           IN  /\ heap' = IF r.raised = "None" /\ Size(p.data) # 1
                          THEN BindOwn(heap, h, r.p)
                          ELSE heap
               /\ last' = [op |-> "remove_by_index", raised |-> r.raised,
                           holder |-> h]
        /\ UNCHANGED <<param, coll, clast>>

\* line 624: indexing with a list returns a new array
ShareSubsetByIndex ==
    \E h \in Holders, indices \in ShareIndexLists :
        /\ last = Idle
        /\ LET p == Observed(heap, h)
               r == subset_by_index(p, "nhru", indices)
           IN  /\ heap' = IF r.p # p \/ (r.raised = "None" /\ Size(p.data) # 1)
                          THEN BindOwn(heap, h, r.p)
                          ELSE heap
               /\ last' = [op |-> "subset_by_index", raised |-> r.raised,
                           holder |-> h]
        /\ UNCHANGED <<param, coll, clast>>

\* lines 601-612: np.broadcast_to returns a read-only view of the array
\* object __data was bound to
ShareReshape ==
    \E h \in Holders, new_dims \in ShareNewDims :
        /\ last = Idle
        /\ heap.params[h].ref # NoRef
        /\ LET p == Observed(heap, h)
               r == reshape(p, new_dims)
           IN  /\ heap' = IF r.raised = "None" /\ r.p.dims # p.dims
                          THEN [heap EXCEPT !.params[h].p = Fields(r.p),
                                            !.params[h].view = dim_sizes(new_dims)]
                          ELSE heap
               /\ last' = [op |-> "reshape", raised |-> r.raised, holder |-> h]
        /\ UNCHANGED <<param, coll, clast>>

NextShare ==
    \/ Return
    \/ ShareAssignArray
    \/ ShareAssignList
    \/ ShareUpdateElement
    \/ ShareRemoveByIndex
    \/ ShareSubsetByIndex
    \/ ShareReshape

SpecShare == InitShare /\ [][NextShare]_vars

(***************************************************************************)
(* Claims.                                                                 *)
(***************************************************************************)
\* the declared sizes multiplied out, as the claims state it
DeclaredTotal(p) == Prod([k \in 1..Len(p.dims) |-> p.dims[k].size])

\* the array's axes are exactly the declared dimensions
WellShaped(p) == p.data.shape = [k \in 1..Len(p.dims) |-> p.dims[k].size]

ReturnedFrom(l, op) == l.op = op /\ l.raised = "None"

\* C1: after a data assignment that returns without raising, on a
\* parameter with at least one declared dimension, the stored element count
\* equals the product of the declared dimension sizes (has_correct_size()).
C1_AssignedDataHasCorrectSize ==
    (ReturnedFrom(last, "data") /\ Len(param.dims) >= 1)
        => has_correct_size(param)

\* C2: a remove_by_index or subset_by_index call that returns normally on a
\* parameter holding 1-D or 2-D data (here: data whose axes are the declared
\* dimensions), for any declared dim_name, leaves the stored element count
\* equal to the product of the declared sizes.
C2_StructuralEditKeepsSize ==
    [][ ( /\ \/ ReturnedFrom(last', "remove_by_index")
             \/ ReturnedFrom(last', "subset_by_index")
          /\ Ndim(param.data) \in {1, 2}
          /\ WellShaped(param)
          /\ dim_exists(param.dims, last'.dim_name) )
        => Len(param'.data.flat) = DeclaredTotal(param') ]_vars

\* C3: modified is false initially and after the first assignment; an
\* assignment whose (reconciled) data equals the held data in shape and in
\* every element leaves modified as it is; one that differs sets modified;
\* no operation ever sets modified back to false.
C3_ModifiedFlag ==
    /\ ~param.modified
    /\ [][ /\ param.modified => param'.modified
           /\ ReturnedFrom(last', "data") =>
                IF IsNone(param.data)
                THEN ~param'.modified
                ELSE IF /\ last'.data_np.shape = param.data.shape
                        /\ last'.data_np.flat = param.data.flat
                THEN param'.modified = param.modified
                ELSE param'.modified ]_vars

\* a second, differing assignment has been made
C3_Witness ==
    /\ ReturnedFrom(last, "data")
    /\ param.modified
    /\ param.data = last.data_np

\* C4: for a parameter holding 1-D or 2-D data (here: of the declared total
\* size and of whole numbers), param.data = param.tolist() succeeds and
\* leaves the stored array (shape and elements) and modified as they were.
C4_ToListRoundTrip ==
    [][ ( /\ last'.op = "data_tolist"
          /\ Ndim(param.data) \in {1, 2}
          /\ has_correct_size(param)
          /\ \A k \in 1..Len(param.data.flat) : param.data.flat[k] % 2 = 0 )
        => /\ last'.raised = "None"
           /\ param'.data = param.data
           /\ param'.modified = param.modified ]_vars

\* C5: check_values() is true when minimum or maximum is unset or either is
\* a non-numeric string; when both are numbers it is false exactly when some
\* stored value is strictly below minimum or strictly above maximum.
C5_CheckValues ==
    last.op = "check_values" =>
        /\ (param.minimum.kind = "none" \/ param.maximum.kind = "none")
              => last.result
        /\ (\E b \in {param.minimum, param.maximum} : b.kind = "str" /\ ~b.numeric)
              => last.result
        /\ (param.minimum.kind = "num" /\ param.maximum.kind = "num")
              => (last.result <=>
                    ~\E k \in 1..Len(param.data.flat) :
                        \/ param.data.flat[k] < param.minimum.num
                        \/ param.data.flat[k] > param.maximum.num)

\* both bounds are numbers, stored values equal each of them and the check
\* was made and said yes
C5_Witness ==
    /\ last.op = "check_values"
    /\ last.result
    /\ param.minimum.kind = "num" /\ param.maximum.kind = "num"
    /\ \E k \in 1..Len(param.data.flat) : param.data.flat[k] = param.maximum.num
    /\ \E k \in 1..Len(param.data.flat) : param.data.flat[k] = param.minimum.num

\* the identifiers stored in poi_gage_id
StoredIds(c) == {c.params["poi_gage_id"].p.data.flat[k] :
                    k \in 1..Len(c.params["poi_gage_id"].p.data.flat)}

\* C6: a remove_poi that removes every remaining identifier leaves no
\* parameter dimensioned solely by npoigages in the collection, keeps
\* npoigages in the global set with size 0, and leaves every other parameter
\* and every other global dimension as it was.
C6_RemoveAllPoi ==
    [][ ( /\ ReturnedFrom(clast', "remove_poi")
          /\ StoredIds(coll) \subseteq clast'.ids )
        => /\ \A n \in AllNames :
                IF /\ coll.params[n].present
                   /\ {coll.params[n].p.dims[k].name :
                          k \in 1..Len(coll.params[n].p.dims)} = {"npoigages"}
                THEN ~coll'.params[n].present
                ELSE coll'.params[n] = coll.params[n]
           /\ Len(coll'.dims) = Len(coll.dims)
           /\ \A k \in 1..Len(coll.dims) :
                coll'.dims[k] = IF coll.dims[k].name = "npoigages"
                                THEN [name |-> "npoigages", size |-> 0]
                                ELSE coll.dims[k] ]_vars

\* all identifiers have been removed at once, another parameter is still
\* there with its data, and the point parameters are gone
C6_Witness ==
    /\ ReturnedFrom(clast, "remove_poi")
    /\ clast.ids = PoiIds
    /\ ~coll.params["poi_gage_id"].present
    /\ ~coll.params["poi_gage_segment"].present
    /\ coll.params["cov_type"].present
    /\ Len(coll.params["cov_type"].p.data.flat) = NHru
    /\ \E k \in 1..Len(coll.dims) : coll.dims[k] = [name |-> "npoigages", size |-> 0]

RECURSIVE Kept(_, _, _)
\* vals without the entries whose key (the identifier at that position) is
\* in ids
Kept(vals, keys, ids) ==
    IF Len(vals) = 0 \/ Len(keys) = 0 THEN vals
    ELSE (IF Head(keys) \in ids THEN <<>> ELSE <<Head(vals)>>)
            \o Kept(Tail(vals), Tail(keys), ids)

\* every parameter that declares npoigages and holds data is 1-D and as
\* long as the global npoigages says, locally too
PoiConsistent(c) ==
    \A n \in AllNames :
        ( /\ c.params[n].present
          /\ \E k \in 1..Len(c.params[n].p.dims) : c.params[n].p.dims[k].name = "npoigages"
          /\ c.params[n].p.data # NoData )
        => \E g \in 1..Len(c.dims) :
              /\ c.dims[g].name = "npoigages"
              /\ c.params[n].p.dims = <<[name |-> "npoigages", size |-> c.dims[g].size]>>
              /\ Len(c.params[n].p.data.flat) = c.dims[g].size

\* C7: a remove_poi that removes some but not all identifiers deletes, in
\* every parameter declaring npoigages, exactly the positions of the removed
\* identifiers and keeps the rest in order; and the global npoigages size
\* stays equal to the local size and data length of each such parameter.
C7_RemoveSomePoi ==
    [][ ( /\ ReturnedFrom(clast', "remove_poi")
          /\ ~(StoredIds(coll) \subseteq clast'.ids) )
        => /\ \A n \in AllNames :
                ( /\ coll.params[n].present
                  /\ \E k \in 1..Len(coll.params[n].p.dims) :
                        coll.params[n].p.dims[k].name = "npoigages" )
                => /\ coll'.params[n].present
                   /\ coll'.params[n].p.data.flat =
                         Kept(coll.params[n].p.data.flat,
                              coll.params["poi_gage_id"].p.data.flat, clast'.ids)
           /\ PoiConsistent(coll) => PoiConsistent(coll') ]_vars

\* the middle identifier has been removed from both point parameters: two
\* entries are left in each, and the global size is two
C7_Witness ==
    /\ ReturnedFrom(clast, "remove_poi")
    /\ clast.ids = {2}
    /\ coll.params["poi_gage_id"].present
    /\ coll.params["poi_gage_id"].p.data.flat = <<0, 4>>
    /\ coll.params["poi_gage_segment"].present
    /\ Len(coll.params["poi_gage_segment"].p.data.flat) = 2
    /\ \E k \in 1..Len(coll.dims) : coll.dims[k] = [name |-> "npoigages", size |-> 2]

\* C8: add(name) fails with a not-found error when name is neither in the
\* catalog nor registered with add_metadata, and with an already-exists
\* error when name is in the collection, the contained parameters staying
\* as they were; after a successful add, exists(name) is true.
C8_Add ==
    [][ clast'.op = "add" =>
          /\ (clast'.name \notin CatalogNames \cup coll.adhoc)
                => clast'.raised = "ParameterNotValidError" /\ coll'.params = coll.params
          /\ coll.params[clast'.name].present
                => clast'.raised = "ParameterExistsError" /\ coll'.params = coll.params
          /\ clast'.raised = "None" => coll'.params[clast'.name].present ]_vars

\* the ad hoc name was registered and added, and a second add has failed
C8_Witness ==
    /\ clast.op = "add"
    /\ clast.name = "foo"
    /\ clast.raised = "ParameterExistsError"
    /\ coll.params["foo"].present

\* C9: on a 1-D parameter holding more than one element,
\* subset_by_index(dim_name, indices) with valid indices returns and leaves
\* the old values at those indices, in the order given, and the named
\* dimension's size equal to the number of indices.
C9_SubsetByIndex ==
    [][ ( /\ last'.op = "subset_by_index"
          /\ Len(param.dims) = 1
          /\ Ndim(param.data) = 1
          /\ Len(param.data.flat) > 1
          /\ last'.dim_name = param.dims[1].name
          /\ \A k \in 1..Len(last'.indices) :
                last'.indices[k] \in 0..(Len(param.data.flat) - 1) )
        => /\ last'.raised = "None"
           /\ param'.data.shape = <<Len(last'.indices)>>
           /\ Len(param'.data.flat) = Len(last'.indices)
           /\ \A k \in 1..Len(last'.indices) :
                param'.data.flat[k] = param.data.flat[last'.indices[k] + 1]
           /\ param'.dims = <<[name |-> last'.dim_name,
                               size |-> Len(last'.indices)]>> ]_vars

\* a subset by indices out of order and not contiguous: [a, b, c] by [2, 0]
\* gives [c, a] with c # a
C9_Witness ==
    /\ ReturnedFrom(last, "subset_by_index")
    /\ last.indices = <<2, 0>>
    /\ last.dim_name = "nhru"
    /\ param.dims = <<[name |-> "nhru", size |-> 2]>>
    /\ param.data.shape = <<2>>
    /\ param.data.flat[1] > param.data.flat[2]

\* C10: reshape(new_dims) of a parameter whose only dimension is 'one' and
\* which holds a single value v returns and leaves data with the axes of
\* new_dims, every element equal to v, and the dimensions exactly new_dims.
C10_ReshapeScalar ==
    [][ ( /\ last'.op = "reshape"
          /\ Len(param.dims) = 1 /\ param.dims[1].name = "one"
          /\ Len(param.data.flat) = 1
          /\ Len(last'.new_dims) >= 1 )
        => /\ last'.raised = "None"
           /\ param'.data.shape =
                [k \in 1..Len(last'.new_dims) |-> last'.new_dims[k].size]
           /\ Len(param'.data.flat) = Prod(param'.data.shape)
           /\ \A k \in 1..Len(param'.data.flat) :
                param'.data.flat[k] = param.data.flat[1]
           /\ param'.dims = last'.new_dims ]_vars

\* a scalar holding a non-zero value has been reshaped to nhru x nmonths
C10_Witness ==
    /\ ReturnedFrom(last, "reshape")
    /\ last.old_dims = <<[name |-> "one", size |-> 1]>>
    /\ Len(last.new_dims) = 2
    /\ param.dims = <<[name |-> "nhru", size |-> NHru],
                      [name |-> "nmonths", size |-> NMonths]>>
    /\ param.data.shape = <<NHru, NMonths>>
    /\ \A k \in 1..(NHru * NMonths) : param.data.flat[k] = 1

\* C11: an operation of the parameter that raises leaves the stored data,
\* the dimension names and sizes, the datatype and the modified flag as
\* they were before the call.
C11_RaiseLeavesState ==
    [][ last'.raised # "None"
        => /\ param'.data = param.data
           /\ param'.dims = param.dims
           /\ param'.datatype = param.datatype
           /\ param'.modified = param.modified ]_vars

\* C12: a parameter with zero declared dimensions holds no data, and a data
\* assignment to it raises and stores nothing.
C12_NoDimsNoData ==
    /\ Len(param.dims) = 0 => IsNone(param.data)
    /\ (last.op = "data" /\ Len(param.dims) = 0) => last.raised # "None"

\* C13: index_map (here: of data whose axes are the declared dimensions)
\* has exactly one key per distinct stored value and maps each to the
\* smallest position holding that value.
C13_IndexMapFirst ==
    (ReturnedFrom(last, "index_map") /\ WellShaped(param))
        => /\ DOMAIN last.result = {param.data.flat[k] : k \in 1..Len(param.data.flat)}
           /\ \A v \in DOMAIN last.result :
                /\ param.data.flat[last.result[v] + 1] = v
                /\ \A j \in 0..(last.result[v] - 1) : param.data.flat[j + 1] # v

\* the element of a at index i along the given axis and index j along the
\* other axis (a 1-D array has no other axis)
Elem(a, axis, i, j) ==
    IF Len(a.shape) = 1 THEN a.flat[i + 1]
    ELSE IF axis = 1 THEN a.flat[i * a.shape[2] + j + 1]
    ELSE a.flat[j * a.shape[2] + i + 1]

\* the length of the other axis of a (axes count from 1 here)
OtherLen(a, axis) == IF Len(a.shape) = 1 THEN 1 ELSE a.shape[3 - axis]

\* C14: on a parameter holding more than one element,
\* remove_by_index(dim_name, indices) with a declared dim_name and indices
\* of its axis returns and has deleted exactly those positions of that
\* axis: every other entry is kept, in its old order; the other axis and
\* its dimension size are as they were, and dim_name's size is the new
\* length of its axis.
C14_RemoveByIndex ==
    [][ ( /\ last'.op = "remove_by_index"
          /\ Len(param.data.flat) > 1
          /\ \E k \in 1..Len(param.dims) : param.dims[k].name = last'.dim_name
          /\ LET ax == CHOOSE k \in 1..Len(param.dims) : param.dims[k].name = last'.dim_name
             IN  /\ ax <= Len(param.data.shape)
                 /\ \A k \in 1..Len(last'.indices) :
                       last'.indices[k] \in 0..(param.data.shape[ax] - 1) )
        => LET ax   == CHOOSE k \in 1..Len(param.dims) : param.dims[k].name = last'.dim_name
               gone == {last'.indices[k] : k \in 1..Len(last'.indices)}
               n    == param.data.shape[ax]
           IN  /\ last'.raised = "None"
               /\ Len(param'.data.shape) = Len(param.data.shape)
               /\ param'.data.shape[ax] = n - Cardinality(gone)
               /\ OtherLen(param'.data, ax) = OtherLen(param.data, ax)
               /\ Len(param'.data.flat) = (n - Cardinality(gone)) * OtherLen(param.data, ax)
               /\ \A i \in (0..(n - 1)) \ gone :
                     \A j \in 0..(OtherLen(param.data, ax) - 1) :
                        Elem(param'.data, ax, i - Cardinality({g \in gone : g < i}), j)
                            = Elem(param.data, ax, i, j)
               /\ Len(param'.dims) = Len(param.dims)
               /\ \A k \in 1..Len(param.dims) :
                     param'.dims[k] =
                        IF k = ax
                        THEN [name |-> last'.dim_name, size |-> n - Cardinality(gone)]
                        ELSE param.dims[k] ]_vars

\* the first column of a nhru x nmonths array has been removed: the rows
\* are all there, one column shorter
C14_Witness ==
    /\ ReturnedFrom(last, "remove_by_index")
    /\ last.dim_name = "nmonths"
    /\ last.indices = <<0>>
    /\ param.data.shape = <<NHru, NMonths - 1>>
    /\ param.dims = <<[name |-> "nhru", size |-> NHru],
                      [name |-> "nmonths", size |-> NMonths - 1]>>
    /\ \E k \in 1..Len(param.data.flat) : param.data.flat[k] # param.data.flat[1]

\* C15: reshape of a 1-D parameter over d (not 'one') with a two-entry
\* new_dims that contains d, at d's length, returns and leaves data of the
\* shape of new_dims, the dimensions exactly new_dims, and at every
\* position the old value at that position's index along d's axis,
\* whichever entry of new_dims d is and also when the two sizes are equal.
C15_Reshape1Dto2D ==
    [][ ( /\ last'.op = "reshape"
          /\ Len(param.dims) = 1 /\ param.dims[1].name # "one"
          /\ Len(param.data.shape) = 1
          /\ Len(last'.new_dims) = 2
          /\ \E k \in 1..2 :
                /\ last'.new_dims[k].name = param.dims[1].name
                /\ last'.new_dims[k].size = Len(param.data.flat) )
        => LET ax == CHOOSE k \in 1..2 : last'.new_dims[k].name = param.dims[1].name
               r  == last'.new_dims[1].size
               c  == last'.new_dims[2].size
           IN  /\ last'.raised = "None"
               /\ param'.data.shape = <<r, c>>
               /\ Len(param'.data.flat) = r * c
               /\ param'.dims = last'.new_dims
               /\ \A i \in 0..(r - 1) : \A j \in 0..(c - 1) :
                     param'.data.flat[i * c + j + 1] =
                        param.data.flat[(IF ax = 1 THEN i ELSE j) + 1] ]_vars

\* C16: a data assignment of a list, an array or a series whose element
\* count differs from the declared total size, when the truncation rule
\* does not apply (the count is smaller, or 'one' is not declared), raises
\* IndexError and stores nothing.
C16_SizeMismatchRaises ==
    [][ ( /\ last'.op = "data"
          /\ last'.kind \in {"list", "ndarray", "series"}
          /\ Len(param.dims) >= 1
          /\ last'.size_in # DeclaredTotal(param)
          /\ \/ last'.size_in < DeclaredTotal(param)
             \/ \A k \in 1..Len(param.dims) : param.dims[k].name # "one" )
        => /\ last'.raised = "IndexError"
           /\ param' = param ]_vars

\* C17: an assignment is truncated exactly when the incoming element count
\* exceeds the declared total size and the sole dimension is 'one', and
\* what is stored then is a one-element array holding the first incoming
\* element, whatever the rank of the incoming data.
C17_Truncation ==
    [][ ( /\ ReturnedFrom(last', "data")
          /\ Len(param.dims) >= 1
          /\ last'.size_in > DeclaredTotal(param) )
        => /\ Len(param.dims) = 1 /\ param.dims[1].name = "one"
           /\ last'.data_np.shape = <<1>>
           /\ last'.data_np.flat = <<last'.first_in>> ]_vars

\* C18: update_element(index, value), with index a position of axis 0 and
\* value a scalar for 1-D data or a row for 2-D data, returns; when value
\* equals what is stored at index, data and modified are as they were;
\* otherwise value is at index, every other position, the shape and the
\* dimensions are as they were, and modified is true.
C18_UpdateElement ==
    [][ ( /\ last'.op = "update_element"
          /\ Len(param.data.shape) \in {1, 2}
          /\ last'.index \in 0..(param.data.shape[1] - 1)
          /\ \/ Len(param.data.shape) = 1 /\ last'.value.shape = <<>>
             \/ Len(param.data.shape) = 2 /\ last'.value.shape = <<param.data.shape[2]>> )
        => LET w   == OtherLen(param.data, 1)
               old == [j \in 1..w |-> param.data.flat[last'.index * w + j]]
           IN  /\ last'.raised = "None"
               /\ param'.dims = param.dims
               /\ param'.data.shape = param.data.shape
               /\ Len(param'.data.flat) = Len(param.data.flat)
               /\ \A k \in 1..Len(param.data.flat) :
                     param'.data.flat[k] =
                        IF (k - 1) \div w = last'.index
                        THEN last'.value.flat[((k - 1) % w) + 1]
                        ELSE param.data.flat[k]
               /\ param'.modified =
                     IF old = last'.value.flat THEN param.modified ELSE TRUE ]_vars

\* C19: on an integer parameter, minimum, maximum and default set to a
\* value that has no integer conversion do not raise and store the value
\* as given; set to a convertible value they store its integer conversion;
\* with no datatype, or with None, they store the value as given.
C19_IntegerBounds ==
    last.op \in {"minimum", "maximum", "default"}
        => LET stored == IF last.op = "minimum" THEN param.minimum
                         ELSE IF last.op = "maximum" THEN param.maximum
                         ELSE param.default
               convertible == /\ last.value.numeric
                              /\ last.value.kind = "str" => last.value.num % 2 = 0
           IN  /\ (param.datatype = 1 /\ last.value.kind # "none" /\ ~convertible)
                     => last.raised = "None" /\ stored = last.value
               /\ (param.datatype = 1 /\ last.value.kind # "none" /\ convertible)
                     => /\ last.raised = "None"
                        /\ stored = [kind |-> "num", num |-> 2 * (last.value.num \div 2),
                                     numeric |-> TRUE]
               /\ (param.datatype = 0 \/ last.value.kind = "none")
                     => last.raised = "None" /\ stored = last.value

\* C20: _read takes the catalog's entries in order.  An entry whose name
\* is in the collection already, or has no CSV file, changes nothing, calls
\* no add and does not stop the load; no entry raises already-exists; and
\* when the load is over the collection holds exactly the catalog's names
\* that have a file, each added once and each with data.
C20_Read ==
    [][ /\ (clast.op = "_read" /\ clast'.op = "_read" /\ clast'.pos = clast.pos + 1)
            => LET name == clast.catalog[clast.pos]
               IN  /\ clast'.raised # "ParameterExistsError"
                   /\ (coll.params[name].present \/ clast.files[name] = "none")
                         => /\ coll' = coll
                            /\ clast'.adds = clast.adds
                            /\ clast'.raised = "None"
        /\ clast'.op = "_read_done"
            => /\ \A n \in AllNames :
                    coll'.params[n].present
                        <=> \E k \in 1..Len(clast'.catalog) :
                               clast'.catalog[k] = n /\ clast'.files[n] # "none"
               /\ \A n \in AllNames :
                    coll'.params[n].present
                        => /\ coll'.params[n].p.data # NoData
                           /\ Cardinality({k \in 1..Len(clast'.adds) :
                                              clast'.adds[k] = n}) = 1 ]_vars

\* a load is over whose catalog named a parameter twice, both times with
\* its file there, and named another one that has no file
C20_Witness ==
    /\ clast.op = "_read_done"
    /\ clast.catalog = <<"cov_type", "poi_gage_id", "cov_type">>
    /\ clast.files["cov_type"] = "full"
    /\ clast.files["poi_gage_id"] = "none"
    /\ clast.adds = <<"cov_type">>
    /\ coll.params["cov_type"].present
    /\ Len(coll.params["cov_type"].p.data.flat) = NHru
    /\ ~coll.params["poi_gage_id"].present

\* the operation just made was a structural or element edit on one parameter
SharedEdit ==
    last'.op \in {"update_element", "remove_by_index", "subset_by_index", "reshape"}

\* C21: each Parameter exclusively owns its stored array: an update_element,
\* remove_by_index, subset_by_index or reshape on one parameter changes
\* neither the values read through the other parameter's data nor the
\* caller's array, whichever arrays were assigned to them before.
C21_ExclusiveOwnership ==
    [][ SharedEdit
          => /\ heap'.arrays[CallerRef] = heap.arrays[CallerRef]
             /\ \A h \in Holders \ {last'.holder} :
                    Deref(heap', h) = Deref(heap, h) ]_vars

\* C22: whenever a parameter with two declared dimensions holds data after a
\* data assignment that returned, the stored array is 2-D, its axis 0 as
\* long as the first declared dimension and its axis 1 as long as the
\* second, also when the incoming data already had rank 2.
C22_TwoDimShape ==
    (ReturnedFrom(last, "data") /\ Len(param.dims) = 2 /\ ~IsNone(param.data))
        => /\ Ndim(param.data) = 2
           /\ param.data.shape = <<param.dims[1].size, param.dims[2].size>>

====
